---- MODULE Spec2Model ----
(***************************************************************************)
(* Model of the STQRY storage bridge (src/stqry-bridge.js): runtime        *)
(* detection, the callApp / onMessage request-response correlation with    *)
(* its timeout fallback, and the storage facade over localStorage.         *)
(***************************************************************************)
EXTENDS Integers, Sequences, FiniteSets, TLC

(***************************************************************************)
(* Bounds of the model.                                                    *)
(***************************************************************************)
\* Facade calls made in a delegated mode (each reaches callApp once).
MaxSends == 2
\* Inbound message events delivered to onMessage.
MaxInbound == 2
\* Milliseconds the clock read by Date.now() advances.
MaxTime == 1
\* Storage events a sibling context is sent in one behaviour.
MaxEvents == 4

(***************************************************************************)
(* Program constants.                                                      *)
(***************************************************************************)
STORAGE_KEY == "stqryStorage"
EVENT_KEY == "stqryStorageEvent"
USER_KEY == "stqryUser"
VERSION == "v1"

(***************************************************************************)
(* Value domains.                                                          *)
(***************************************************************************)
\* Logical keys a caller uses; "" is the empty string.
Keys == {"a", ""}
\* JSON-serializable values a caller stores.
Vals == {"1", "2"}
\* A caller-supplied alternate storage key.
CUSTOM_KEY == "custom"
\* The customKey argument: "" stands for an omitted (falsy) argument.
CustomKeyArgs == {"", CUSTOM_KEY}
StoreKeys == {STORAGE_KEY, CUSTOM_KEY, EVENT_KEY, USER_KEY}

EmptyMap == [k \in {} |-> "1"]
Mappings == UNION {[S -> Vals] : S \in SUBSET Keys}

\* JavaScript values as the facade returns them.
Undefined == [t |-> "undefined", m |-> EmptyMap, v |-> ""]
JsNull == [t |-> "null", m |-> EmptyMap, v |-> ""]
JsObject(m) == [t |-> "object", m |-> m, v |-> ""]
JsPrim(v) == [t |-> "prim", m |-> EmptyMap, v |-> v]

\* The key argument of get / remove: null, or a string.
NullKey == [null |-> TRUE, name |-> ""]
StrKey(s) == [null |-> FALSE, name |-> s]
KeyArgs == {NullKey} \cup {StrKey(s) : s \in Keys}
\* JavaScript truthiness of a key argument: null and "" are falsy.
Truthy(key) == ~key.null /\ key.name # ""

\* A caller's callback: absent, or a function that returns or raises.
NoCallback == [present |-> FALSE, tok |-> 0, beh |-> "ok"]
Callbacks(tok) == {NoCallback} \cup {[present |-> TRUE, tok |-> tok, beh |-> b] : b \in {"ok", "throws"}}
NoFallback == [present |-> FALSE, kind |-> ""]

\* Items of localStorage, as text.
NoItem == [kind |-> "none", map |-> EmptyMap, ts |-> 0]
ObjText(m) == [kind |-> "obj", map |-> m, ts |-> 0]
NullText == [kind |-> "null", map |-> EmptyMap, ts |-> 0]
GarbageText == [kind |-> "garbage", map |-> EmptyMap, ts |-> 0]

VARIABLES
  win,                \* the ambient window: native bridge object, parent context
  stqryRuntime,       \* window.stqryRuntime
  appCallbacks,       \* callbackId -> the stored callback
  lastAppCallbackId,  \* the callbackId counter
  timers,             \* scheduled setTimeout closures of callApp, not yet fired
  sent,               \* channel and callbackId of each envelope dispatched to the host peer, in order
  localStorage,       \* storage key -> item text
  sends,              \* facade calls made in a delegated mode
  inbound,            \* message events delivered so far
  hcalls,             \* callbackId -> invocations of its stored callback by onMessage
  fcalls,             \* callbackId -> invocations of its fallback by the timer
  now,                \* the clock Date.now() reads, in milliseconds
  tabB,               \* a sibling context of the same origin: its pending storage events
  full,               \* the storage keys for which a setItem now exceeds the quota and raises
  last                \* what the last operation did

vars == <<win, stqryRuntime, appCallbacks, lastAppCallbackId, timers, sent,
          localStorage, sends, inbound, hcalls, fcalls, now, tabB, full, last>>

bridgeVars == <<appCallbacks, lastAppCallbackId, timers, sent, hcalls, fcalls>>

(***************************************************************************)
(* Runtime detection.                                                      *)
(***************************************************************************)
\* rn: window.ReactNativeWebView is there.
\* parent: "self" (window.parent is missing or is the window itself), "frame"
\* (a distinct parent with a postMessage), "isolated" (a distinct parent whose
\* postMessage property raises on access), "mute" (a distinct parent without
\* a postMessage).
Windows == [rn : BOOLEAN, parent : {"self", "frame", "isolated", "mute"}]

\* A detection that looks at the parent before the native bridge object.
detectRuntime_ParentFirst(w) ==
  IF w.parent \in {"frame", "isolated"} THEN "IFrame"
  ELSE IF w.rn THEN "ReactNative"
  ELSE "NoRuntime"

\* A detection whose catch of the access exception falls back to NoRuntime.
detectRuntime_CatchStandalone(w) ==
  IF w.rn THEN "ReactNative"
  ELSE IF w.parent = "frame" THEN "IFrame"
  ELSE "NoRuntime"

detectRuntime(w) ==
  IF w.rn THEN "ReactNative"
  ELSE IF w.parent \in {"frame", "isolated"} THEN "IFrame"
  ELSE "NoRuntime"

(***************************************************************************)
(* localStorage helpers.                                                   *)
(***************************************************************************)
\* JSON.stringify of an object: a key whose value is undefined is dropped.
JSON_stringify(m) ==
  ObjText([k \in {j \in DOMAIN m : m[j] # "undefined"} |-> m[k]])

\* JSON.parse of an item text: raises on text that is not JSON.
JSON_parse_raises(text) == text.kind = "garbage"
JSON_parse(text) ==
  CASE text.kind = "null" -> JsNull
    [] text.kind = "obj" -> JsObject(text.map)
    [] OTHER -> [t |-> "event", m |-> text.map, v |-> ""]

\* getStoredData: stored ? JSON.parse(stored) : {}, and {} when that raises.
getStoredData(ls, storageKey) ==
  LET stored == ls[storageKey] IN
  IF stored.kind = "none" \/ JSON_parse_raises(stored)
    THEN JsObject(EmptyMap)
    ELSE JSON_parse(stored)

\* A setStoredData that leaves the entry alone when the value has no property.
setStoredData_SkipsEmpty(ls, storageKey, value) ==
  IF DOMAIN value = {} THEN ls ELSE [ls EXCEPT ![storageKey] = ObjText(value)]

\* setStoredData: the store after localStorage.setItem(storageKey,
\* JSON.stringify(value)); a setItem that raises is caught and leaves the item.
setStoredData(ls, storageKey, value) ==
  IF storageKey \in full THEN ls ELSE [ls EXCEPT ![storageKey] = JSON_stringify(value)]


(***************************************************************************)
(* Records of what an operation did.                                       *)
(***************************************************************************)
\* One invocation of a caller-supplied function.
\*   fn: "handler" (a stored callback applied by onMessage), "fallback" (the
\*   timer's fallback closure), "callback" (a Standalone facade callback).
Invocation(fn, id, tok, args) == [fn |-> fn, id |-> id, tok |-> tok, args |-> args]

\* The args field of an inbound envelope.
NoArgs == [kind |-> "absent", seq |-> <<>>]
SeqArgs(s) == [kind |-> "seq", seq |-> s]
PrimArgs == [kind |-> "prim", seq |-> <<>>]
ArgsDomain == {NoArgs, SeqArgs(<<JsPrim("1"), JsPrim("2")>>), PrimArgs}

\* The data field of an inbound storage.updated envelope.
NoData == [present |-> FALSE, map |-> EmptyMap]
SomeData(m) == [present |-> TRUE, map |-> m]
DataDomain == {NoData, SomeData([k \in {"a"} |-> "1"])}

\* callbackId values an inbound envelope may carry; 0 stands for an absent or
\* falsy callbackId.
CallbackIds == 0 .. (MaxSends + 1)

\* e.data of an inbound message event.
\*   form: "badjson" (a string that is not JSON), "null" (a falsy value),
\*   "noaction" (a value without an action field), "envelope".
Message(form, action, callbackId, args, data) ==
  [form |-> form, action |-> action, callbackId |-> callbackId, args |-> args, data |-> data]
NoMessage == Message("none", "", 0, NoArgs, NoData)
Messages ==
  {Message(f, "", 0, NoArgs, NoData) : f \in {"badjson", "null", "noaction"}}
  \cup {Message("envelope", "callback", i, a, NoData) : i \in CallbackIds, a \in ArgsDomain}
  \cup {Message("envelope", "storage.updated", 1, NoArgs, d) : d \in DataDomain}
  \cup {Message("envelope", "other.action", 1, SeqArgs(<<JsPrim("1"), JsPrim("2")>>),
                  SomeData([k \in {"a"} |-> "1"]))}

\* The data payload of an outbound envelope.
Payload(key, storageKey, changeset) ==
  [key |-> key, storageKey |-> storageKey, changeset |-> changeset]
NoPayload == Payload(NullKey, "", EmptyMap)
Envelope(action, data, callbackId, channel) ==
  [action |-> action, version |-> VERSION, data |-> data, callbackId |-> callbackId, channel |-> channel]
NoEnvelope == Envelope("", NoPayload, 0, "none")

\* The record of an operation; turn flips with every operation, so that a step
\* of an operation is told from a step of the clock; read is the stored data a
\* Standalone facade call read, prev the operation just before a Standalone
\* get when that one addressed the same storage key.
InitLast ==
  [op |-> "init", storageKey |-> "", key |-> NullKey, changeset |-> EmptyMap,
   callback |-> NoCallback, ret |-> Undefined, raised |-> FALSE, calls |-> <<>>,
   steps |-> <<>>, msg |-> NoMessage, envelope |-> NoEnvelope, id |-> 0,
   detail |-> NoData, turn |-> 0, read |-> Undefined, prev |-> "none"]
NoLast == [InitLast EXCEPT !.turn = 1 - last.turn]

(***************************************************************************)
(* Transport: callApp.                                                     *)
(***************************************************************************)
\* The outbound channel of the cached runtime.
\* A dispatch that finds no channel in any mode.
Channel_None == "none"

\* A channel chosen by looking at the window again, parent first, instead of
\* at the cached mode.
Channel_ByWindow ==
  CASE win.parent = "frame" -> "parent"
    [] win.rn -> "native"
    [] OTHER -> "none"

Channel ==
  CASE stqryRuntime = "ReactNative" -> "native"
    [] stqryRuntime = "IFrame" -> "parent"
    [] OTHER -> "none"

\* Reading window.parent.postMessage raises in an isolated frame.
DispatchRaises == stqryRuntime = "IFrame" /\ win.parent = "isolated"

\* Mutant: the id is derived from the size of the pending table.
NextCallbackId_TableSize == Cardinality(DOMAIN appCallbacks) + 1

\* The callbackId callApp assigns to a call that passes a callback.
NextCallbackId == lastAppCallbackId + 1

\* Mutant: the callback is stored under the counter before its increment.
Register_StaleId(callback) == [f \in DOMAIN appCallbacks \cup {lastAppCallbackId} |->
                                IF f = lastAppCallbackId THEN callback ELSE appCallbacks[f]]

\* A registration that starts the table afresh with the new entry.
Register_Alone(callback) == [f \in {NextCallbackId} |-> callback]

\* The entry callApp stores under the new callbackId.
Register(callback) == [f \in DOMAIN appCallbacks \cup {NextCallbackId} |->
                         IF f = NextCallbackId THEN callback ELSE appCallbacks[f]]

\* callApp(action, data, callback, fallback): registers the callback under a
\* fresh id, schedules the timeout when a fallback is passed, and dispatches.
callApp(action, data, callback, fallback) ==
  /\ IF callback.present
       THEN /\ lastAppCallbackId' = NextCallbackId
            /\ appCallbacks' = Register(callback)
            /\ timers' = IF fallback.present
                           THEN timers \cup {[callbackId |-> NextCallbackId,
                                              fallback |-> fallback, callback |-> callback]}
                           ELSE timers
       ELSE UNCHANGED <<lastAppCallbackId, appCallbacks, timers>>
  /\ sent' = IF Channel = "none" \/ DispatchRaises
               THEN sent
               ELSE Append(sent, [channel |-> Channel,
                                  callbackId |-> IF callback.present THEN NextCallbackId ELSE 0])
  /\ UNCHANGED <<hcalls, fcalls>>

\* What a facade call that went through callApp records.
Delegated(op, action, data, callback) ==
  [NoLast EXCEPT !.op = op, !.storageKey = data.storageKey, !.key = data.key,
                 !.changeset = data.changeset, !.callback = callback,
                 !.raised = DispatchRaises,
                 !.envelope = Envelope(action, data, IF callback.present THEN NextCallbackId ELSE 0, Channel),
                 !.id = IF callback.present THEN NextCallbackId ELSE 0]


(***************************************************************************)
(* Transport: onMessage and the timeout of callApp.                        *)
(***************************************************************************)
\* A delete that empties the object when the property is there.
Delete_All(f, key) == IF key \in DOMAIN f THEN [k \in {} |-> f[k]] ELSE f

\* A function with one key removed (delete obj[key]).
Delete(f, key) == [k \in DOMAIN f \ {key} |-> f[k]]

Bump(counts, id) == [counts EXCEPT ![id] = @ + 1]

\* A test that takes any envelope with a callbackId for a response.
IsCallback_AnyAction(e) == e.form = "envelope" /\ e.callbackId # 0

\* message.action === 'callback' && message.callbackId, on a parsed message
\* that has an action.
IsCallback(e) == e.form = "envelope" /\ e.action = "callback" /\ e.callbackId # 0

\* A test that takes no envelope for a storage update.
IsUpdate_Never(e) == FALSE

\* message.action === 'storage.updated' && message.data, on a parsed message
\* that has an action.
IsUpdate(e) == e.form = "envelope" /\ e.action = "storage.updated" /\ e.data.present

\* onMessage(e): the listener of the window and document "message" events.
onMessage(e) ==
  LET isCallback == IsCallback(e)
      found == isCallback /\ e.callbackId \in DOMAIN appCallbacks
      callback == appCallbacks[e.callbackId]
      \* Function.prototype.apply raises on an argument list that is no object.
      applyRaises == found /\ e.args.kind = "prim"
      applied == found /\ ~applyRaises
      args == IF e.args.kind = "seq" THEN e.args.seq ELSE <<>>
      handlerRaises == applied /\ callback.beh = "throws"
      deleted == applied /\ ~handlerRaises
      isUpdate == IsUpdate(e)
  IN
  /\ inbound < MaxInbound
  /\ inbound' = inbound + 1
  /\ appCallbacks' = IF deleted THEN Delete(appCallbacks, e.callbackId) ELSE appCallbacks
  /\ hcalls' = IF applied THEN Bump(hcalls, e.callbackId) ELSE hcalls
  /\ last' = [NoLast EXCEPT !.op = "onMessage", !.msg = e,
                            !.raised = applyRaises \/ handlerRaises,
                            !.id = IF found THEN e.callbackId ELSE 0,
                            !.calls = IF applied
                                        THEN <<Invocation("handler", e.callbackId, callback.tok, args)>>
                                        ELSE <<>>,
                            !.detail = IF isUpdate THEN e.data ELSE NoData]
  /\ UNCHANGED <<win, full, stqryRuntime, lastAppCallbackId, timers, sent, localStorage, tabB,
                 sends, fcalls, now>>

OnMessage == \E e \in Messages : onMessage(e)

\* getLocalUser of user.get: the parsed stqryUser item, or the demo user.
DemoUser == JsPrim("demo-user")
getLocalUserRaises(ls) == ls[USER_KEY].kind # "none" /\ JSON_parse_raises(ls[USER_KEY])
getLocalUser(ls) ==
  LET storedUser == ls[USER_KEY] IN
  IF storedUser.kind = "none" THEN DemoUser ELSE JSON_parse(storedUser)

\* The closure callApp schedules with setTimeout when a fallback is passed.
timeout(t) ==
  LET pending == t.callbackId \in DOMAIN appCallbacks
      \* the fallback of user.get: if (callback) callback(getLocalUser())
      readRaises == pending /\ getLocalUserRaises(localStorage)
      called == pending /\ ~readRaises
      callbackRaises == called /\ t.callback.beh = "throws"
  IN
  /\ timers' = timers \ {t}
  /\ appCallbacks' = IF pending THEN Delete(appCallbacks, t.callbackId) ELSE appCallbacks
  /\ fcalls' = IF pending THEN Bump(fcalls, t.callbackId) ELSE fcalls
  /\ last' = [NoLast EXCEPT !.op = "timeout", !.id = t.callbackId,
                            !.raised = readRaises \/ callbackRaises,
                            !.calls = (IF pending
                                         THEN <<Invocation("fallback", t.callbackId, t.callback.tok, <<>>)>>
                                         ELSE <<>>)
                                      \o (IF called
                                            THEN <<Invocation("callback", t.callbackId, t.callback.tok,
                                                              <<getLocalUser(localStorage)>>)>>
                                            ELSE <<>>)]
  /\ UNCHANGED <<win, full, stqryRuntime, lastAppCallbackId, sent, localStorage, sends, tabB,
                 inbound, hcalls, now>>

Timeout == \E t \in timers : timeout(t)


(***************************************************************************)
(* Capability facade: storage.                                             *)
(***************************************************************************)
\* var storageKey = customKey || STORAGE_KEY
StorageKeyOf(customKey) == IF customKey = "" THEN STORAGE_KEY ELSE customKey

\* The property name a key argument denotes in storedData[key].
PropName(key) == IF key.null THEN "null" ELSE key.name

\* storedData[key] on a parsed object.
Prop(m, key) == IF PropName(key) \in DOMAIN m THEN JsPrim(m[PropName(key)]) ELSE Undefined

\* var value = key ? storedData[key] : storedData
SelectValue(storedData, key) ==
  IF Truthy(key) THEN Prop(storedData.m, key) ELSE storedData

\* A merge in which the target's own properties win.
Object_assign_TargetWins(m, changeset) ==
  [k \in DOMAIN m \cup DOMAIN changeset |-> IF k \in DOMAIN m THEN m[k] ELSE changeset[k]]

\* Object.assign(storedData, changeset) on two plain objects.
Object_assign(m, changeset) ==
  [k \in DOMAIN m \cup DOMAIN changeset |-> IF k \in DOMAIN changeset THEN changeset[k] ELSE m[k]]

\* The setItem of broadcastUpdate raises, and nothing catches it.
broadcastRaises == EVENT_KEY \in full

\* broadcastUpdate(data): the store after the write of the signalling slot.
broadcastUpdate(ls, data) ==
  IF broadcastRaises THEN ls
  ELSE [ls EXCEPT ![EVENT_KEY] = [kind |-> "event", map |-> data, ts |-> now]]

\* The storage event a localStorage.setItem fires in the other contexts of the
\* origin: none when the item already held that text.
StorageEvent(before, after, key) ==
  IF before[key] = after[key] THEN <<>> ELSE <<[key |-> key, newValue |-> after[key]]>>

\* The sibling context after a Standalone write of value under storageKey:
\* the events of setStoredData and of broadcastUpdate, in that order.
Notify(ls, storageKey, value) ==
  LET stored == setStoredData(ls, storageKey, value)
      signalled == broadcastUpdate(stored, value)
  IN IF tabB.open
       THEN [tabB EXCEPT !.queue = @ \o StorageEvent(ls, stored, storageKey)
                                     \o StorageEvent(stored, signalled, EVENT_KEY)]
       ELSE tabB

\* A facade call that also dispatches stqryStorageUpdated at its own window
\* when it has written.
Local_Notifying(op, storageKey, key, changeset, callback, read, ret, raised, calls, steps) ==
  [NoLast EXCEPT !.op = op, !.storageKey = storageKey, !.key = key,
                 !.changeset = changeset, !.callback = callback, !.read = read,
                 !.prev = IF op = "storage.get" /\ last.storageKey = storageKey
                            THEN last.op ELSE "none",
                 !.ret = ret, !.raised = raised, !.calls = calls, !.steps = steps,
                 !.detail = IF steps = <<>> \/ op = "storage.get" THEN NoData
                            ELSE SomeData(changeset)]

\* What a Standalone facade call records.
Local(op, storageKey, key, changeset, callback, read, ret, raised, calls, steps) ==
  [NoLast EXCEPT !.op = op, !.storageKey = storageKey, !.key = key,
                 !.changeset = changeset, !.callback = callback, !.read = read,
                 !.prev = IF op = "storage.get" /\ last.storageKey = storageKey
                            THEN last.op ELSE "none",
                 !.ret = ret, !.raised = raised, !.calls = calls, !.steps = steps]

\* A call of the callback that passes it no argument.
CallbackCall_NoArgs(callback, args) ==
  IF callback.present THEN <<Invocation("callback", 0, callback.tok, <<>>)>> ELSE <<>>

\* if (callback) callback(args...)
CallbackCall(callback, args) ==
  IF callback.present THEN <<Invocation("callback", 0, callback.tok, args)>> ELSE <<>>
CallbackStep(callback) == IF callback.present THEN <<"callback">> ELSE <<>>
CallbackRaises(callback) == callback.present /\ callback.beh = "throws"

storage_get(key, callback, customKey) ==
  LET storageKey == StorageKeyOf(customKey) IN
  IF stqryRuntime = "NoRuntime"
    THEN LET storedData == getStoredData(localStorage, storageKey)
             \* reading a property of null raises a TypeError
             readRaises == Truthy(key) /\ storedData.t = "null"
             value == SelectValue(storedData, key)
         IN /\ last' = IF readRaises
                         THEN Local("storage.get", storageKey, key, EmptyMap, callback, storedData,
                                    Undefined, TRUE, <<>>, <<>>)
                         ELSE Local("storage.get", storageKey, key, EmptyMap, callback, storedData,
                                    IF CallbackRaises(callback) THEN Undefined ELSE value,
                                    CallbackRaises(callback),
                                    CallbackCall(callback, <<value>>), CallbackStep(callback))
            /\ UNCHANGED <<bridgeVars, localStorage, sends, tabB>>
    ELSE /\ sends < MaxSends
         /\ sends' = sends + 1
         /\ callApp("storage.get", Payload(key, storageKey, EmptyMap), callback, NoFallback)
         /\ last' = Delegated("storage.get", "storage.get", Payload(key, storageKey, EmptyMap), callback)
         /\ UNCHANGED <<localStorage, tabB>>

storage_set(changeset, callback, customKey) ==
  LET storageKey == StorageKeyOf(customKey) IN
  IF stqryRuntime = "NoRuntime"
    THEN LET storedData == getStoredData(localStorage, storageKey)
             \* Object.assign raises a TypeError on a null target
             assignRaises == storedData.t = "null"
             value == Object_assign(storedData.m, changeset)
         IN /\ localStorage' = IF assignRaises THEN localStorage
                               ELSE broadcastUpdate(setStoredData(localStorage, storageKey, value), value)
            /\ tabB' = IF assignRaises THEN tabB ELSE Notify(localStorage, storageKey, value)
            /\ last' = IF assignRaises
                         THEN Local("storage.set", storageKey, NullKey, changeset, callback, storedData,
                                    Undefined, TRUE, <<>>, <<>>)
                         ELSE IF broadcastRaises
                         THEN Local("storage.set", storageKey, NullKey, changeset, callback, storedData,
                                    Undefined, TRUE, <<>>, <<"persist">>)
                         ELSE Local("storage.set", storageKey, NullKey, changeset, callback, storedData,
                                    Undefined, CallbackRaises(callback),
                                    CallbackCall(callback, <<>>),
                                    <<"persist", "broadcast">> \o CallbackStep(callback))
            /\ UNCHANGED <<bridgeVars, sends>>
    ELSE /\ sends < MaxSends
         /\ sends' = sends + 1
         /\ callApp("storage.set", Payload(NullKey, storageKey, changeset), callback, NoFallback)
         /\ last' = Delegated("storage.set", "storage.set", Payload(NullKey, storageKey, changeset), callback)
         /\ UNCHANGED <<localStorage, tabB>>

storage_remove(key, callback, customKey) ==
  LET storageKey == StorageKeyOf(customKey) IN
  IF stqryRuntime = "NoRuntime"
    THEN LET storedData == getStoredData(localStorage, storageKey)
             \* delete on a property of null raises a TypeError
             deleteRaises == storedData.t = "null"
             value == Delete(storedData.m, PropName(key))
         IN /\ localStorage' = IF deleteRaises THEN localStorage
                               ELSE broadcastUpdate(setStoredData(localStorage, storageKey, value), value)
            /\ tabB' = IF deleteRaises THEN tabB ELSE Notify(localStorage, storageKey, value)
            /\ last' = IF deleteRaises
                         THEN Local("storage.remove", storageKey, key, EmptyMap, callback, storedData,
                                    Undefined, TRUE, <<>>, <<>>)
                         ELSE IF broadcastRaises
                         THEN Local("storage.remove", storageKey, key, EmptyMap, callback, storedData,
                                    Undefined, TRUE, <<>>, <<"persist">>)
                         ELSE Local("storage.remove", storageKey, key, EmptyMap, callback, storedData,
                                    Undefined, CallbackRaises(callback),
                                    CallbackCall(callback, <<>>),
                                    <<"persist", "broadcast">> \o CallbackStep(callback))
            /\ UNCHANGED <<bridgeVars, sends>>
    ELSE /\ sends < MaxSends
         /\ sends' = sends + 1
         /\ callApp("storage.remove", Payload(key, storageKey, EmptyMap), callback, NoFallback)
         /\ last' = Delegated("storage.remove", "storage.remove", Payload(key, storageKey, EmptyMap), callback)
         /\ UNCHANGED <<localStorage, tabB>>

\* A clear that invokes the callback before it persists and broadcasts.
storage_clear_CallbackFirst(callback, customKey) ==
  LET storageKey == StorageKeyOf(customKey) IN
  /\ stqryRuntime = "NoRuntime"
  /\ localStorage' = IF CallbackRaises(callback) THEN localStorage
                     ELSE broadcastUpdate(setStoredData(localStorage, storageKey, EmptyMap), EmptyMap)
  /\ tabB' = IF CallbackRaises(callback) THEN tabB ELSE Notify(localStorage, storageKey, EmptyMap)
  /\ last' = Local("storage.clear", storageKey, NullKey, EmptyMap, callback, Undefined,
                   Undefined, CallbackRaises(callback),
                   CallbackCall(callback, <<>>),
                   CallbackStep(callback)
                     \o (IF CallbackRaises(callback) THEN <<>> ELSE <<"persist", "broadcast">>))
  /\ UNCHANGED <<bridgeVars, sends>>

storage_clear(callback, customKey) ==
  LET storageKey == StorageKeyOf(customKey) IN
  IF stqryRuntime = "NoRuntime"
    THEN /\ localStorage' = broadcastUpdate(setStoredData(localStorage, storageKey, EmptyMap), EmptyMap)
         /\ tabB' = Notify(localStorage, storageKey, EmptyMap)
         /\ last' = IF broadcastRaises
                      THEN Local("storage.clear", storageKey, NullKey, EmptyMap, callback, Undefined,
                                 Undefined, TRUE, <<>>, <<"persist">>)
                      ELSE Local("storage.clear", storageKey, NullKey, EmptyMap, callback, Undefined,
                                 Undefined, CallbackRaises(callback),
                                 CallbackCall(callback, <<>>),
                                 <<"persist", "broadcast">> \o CallbackStep(callback))
         /\ UNCHANGED <<bridgeVars, sends>>
    ELSE /\ sends < MaxSends
         /\ sends' = sends + 1
         /\ callApp("storage.clear", Payload(NullKey, storageKey, EmptyMap), callback, NoFallback)
         /\ last' = Delegated("storage.clear", "storage.clear", Payload(NullKey, storageKey, EmptyMap), callback)
         /\ UNCHANGED <<localStorage, tabB>>

(***************************************************************************)
(* Capability facade: user.                                                *)
(***************************************************************************)
\* A user.get that goes through callApp in every mode.
user_get_AlwaysDelegates(callback) ==
  /\ sends < MaxSends
  /\ sends' = sends + 1
  /\ callApp("user.get", NoPayload, callback, [present |-> TRUE, kind |-> "getLocalUser"])
  /\ last' = Delegated("user.get", "user.get", NoPayload, callback)
  /\ UNCHANGED <<localStorage, tabB>>

user_get(callback) ==
  IF stqryRuntime = "NoRuntime"
    THEN LET readRaises == getLocalUserRaises(localStorage)
             user == getLocalUser(localStorage)
         IN /\ last' = IF readRaises
                         THEN Local("user.get", "", NullKey, EmptyMap, callback, Undefined,
                                    Undefined, TRUE, <<>>, <<>>)
                         ELSE Local("user.get", "", NullKey, EmptyMap, callback, Undefined,
                                    IF CallbackRaises(callback) THEN Undefined ELSE user,
                                    CallbackRaises(callback),
                                    CallbackCall(callback, <<user>>), CallbackStep(callback))
            /\ UNCHANGED <<bridgeVars, localStorage, sends, tabB>>
    ELSE /\ sends < MaxSends
         /\ sends' = sends + 1
         /\ callApp("user.get", NoPayload, callback, [present |-> TRUE, kind |-> "getLocalUser"])
         /\ last' = Delegated("user.get", "user.get", NoPayload, callback)
         /\ UNCHANGED <<localStorage, tabB>>

(***************************************************************************)
(* The storage event listener, as it runs in a sibling context.            *)
(***************************************************************************)
\* No other context of the origin is open. pc and storedData are those of a
\* storage.set the sibling context makes itself: where it is, what it read.
NoTab == [open |-> FALSE, queue |-> <<>>, seen |-> 0, received |-> <<>>,
          pc |-> "idle", storedData |-> Undefined]
\* A sibling context that has the bridge loaded and listens for
\* stqryStorageUpdated.
OpenTab == [NoTab EXCEPT !.open = TRUE]

\* A listener that filters on the default storage key, not on the signalling slot.
onStorage_WrongKey(e) ==
  /\ tabB' = [tabB EXCEPT !.queue = Tail(@), !.seen = @ + 1,
                          !.received = IF e.key = STORAGE_KEY /\ e.newValue.kind = "event"
                                         THEN Append(@, [ts |-> e.newValue.ts,
                                                         detail |-> JsObject(e.newValue.map)])
                                         ELSE @]
  /\ UNCHANGED <<win, full, stqryRuntime, bridgeVars, localStorage, sends, inbound, now, last>>

\* A listener that dispatches the first notification only.
onStorage_FirstOnly(e) ==
  /\ tabB' = [tabB EXCEPT !.queue = Tail(@), !.seen = @ + 1,
                          !.received = IF e.key = EVENT_KEY /\ e.newValue.kind = "event" /\ @ = <<>>
                                         THEN Append(@, [ts |-> e.newValue.ts,
                                                         detail |-> JsObject(e.newValue.map)])
                                         ELSE @]
  /\ UNCHANGED <<win, full, stqryRuntime, bridgeVars, localStorage, sends, inbound, now, last>>

\* The listener of 'storage' events on one event e: for the signalling slot
\* with a value, parse it and dispatch stqryStorageUpdated with its data; a
\* failure of the parse or of the read of .data is caught.
onStorage(e) ==
  LET relevant == e.key = EVENT_KEY /\ e.newValue.kind # "none"
      dispatched == relevant /\ e.newValue.kind \in {"event", "obj"}
      detail == IF e.newValue.kind = "event"
                  THEN JsObject(e.newValue.map)
                  ELSE Prop(e.newValue.map, StrKey("data"))
  IN
  /\ tabB' = [tabB EXCEPT !.queue = Tail(@), !.seen = @ + 1,
                          !.received = IF dispatched
                                         THEN Append(@, [ts |-> e.newValue.ts, detail |-> detail])
                                         ELSE @]
  /\ UNCHANGED <<win, full, stqryRuntime, bridgeVars, localStorage, sends, inbound, now, last>>

OnStorage == tabB.queue # <<>> /\ onStorage(Head(tabB.queue))

(***************************************************************************)
(* storage.set as a sibling context of the origin runs it. The contexts    *)
(* run in parallel, so a step of the page may fall between the getItem and *)
(* the setItem of the sibling's set. The storage events the sibling's      *)
(* writes fire arrive at the page, whose notifications are not recorded.   *)
(***************************************************************************)
\* The changeset of the sibling's set, into the default namespace.
SiblingChangeset == [k \in {"b"} |-> "1"]

\* var storedData = getStoredData(storageKey)
SiblingSetRead ==
  /\ tabB.open /\ tabB.pc = "idle"
  /\ tabB' = [tabB EXCEPT !.pc = "read", !.storedData = getStoredData(localStorage, STORAGE_KEY)]
  /\ UNCHANGED <<win, full, stqryRuntime, bridgeVars, localStorage, sends, inbound, now, last>>

\* Object.assign(storedData, changeset); setStoredData(storageKey, storedData);
\* this.broadcastUpdate(storedData)
SiblingSetWrite ==
  LET assignRaises == tabB.storedData.t = "null"
      value == Object_assign(tabB.storedData.m, SiblingChangeset)
  IN
  /\ tabB.open /\ tabB.pc = "read"
  /\ tabB' = [tabB EXCEPT !.pc = "done"]
  /\ localStorage' = IF assignRaises THEN localStorage
                     ELSE broadcastUpdate(setStoredData(localStorage, STORAGE_KEY, value), value)
  /\ UNCHANGED <<win, full, stqryRuntime, bridgeVars, sends, inbound, now, last>>

(***************************************************************************)
(* Capability facade: utils.                                               *)
(***************************************************************************)
UtilsFns == {"getRuntime", "isStandalone", "isIFrame", "isReactNative"}

JsBool(b) == JsPrim(IF b THEN "true" ELSE "false")

\* What a utils function returns.
utils_value(fn) ==
  CASE fn = "getRuntime" -> JsPrim(stqryRuntime)
    [] fn = "isStandalone" -> JsBool(stqryRuntime = "NoRuntime")
    [] fn = "isIFrame" -> JsBool(stqryRuntime = "IFrame")
    [] fn = "isReactNative" -> JsBool(stqryRuntime = "ReactNative")

\* A utils whose isStandalone assigns the mode it should compare with.
utils_Assigning(fn) ==
  /\ last' = [NoLast EXCEPT !.op = "utils." \o fn, !.ret = utils_value(fn)]
  /\ stqryRuntime' = IF fn = "isStandalone" THEN "NoRuntime" ELSE stqryRuntime
  /\ UNCHANGED <<win, full, bridgeVars, localStorage, sends, inbound, now, tabB>>

\* utils.getRuntime, isStandalone, isIFrame, isReactNative: they read the mode.
utils(fn) ==
  /\ last' = [NoLast EXCEPT !.op = "utils." \o fn, !.ret = utils_value(fn)]
  /\ UNCHANGED <<win, full, stqryRuntime, bridgeVars, localStorage, sends, inbound, now, tabB>>

(***************************************************************************)
(* The page: facade calls by the embedding page, inbound events, timers.   *)
(***************************************************************************)
\* The callback argument of a facade call; its token names the call.
CallbackArgs == IF tabB.open THEN {NoCallback} ELSE Callbacks(sends + 1)

\* The arguments the page passes. In a delegated mode they only travel in the
\* envelope, so fewer of them are drawn; with a sibling context open what
\* matters is the snapshot that is broadcast, so one key and no callback do.
KeyArgsOfPage ==
  IF tabB.open THEN {StrKey("a")}
  ELSE IF stqryRuntime = "NoRuntime" THEN KeyArgs ELSE {NullKey, StrKey("a")}
ChangesetsOfPage ==
  IF tabB.open THEN {[k \in {"a"} |-> v] : v \in Vals}
  ELSE IF stqryRuntime = "NoRuntime" THEN Mappings ELSE {[k \in {"a"} |-> "1"]}

\* Room in the sibling's event queue for the two events of one write.
CanPost ==
  IF stqryRuntime = "NoRuntime" /\ tabB.open
    THEN Len(tabB.queue) + tabB.seen + 2 <= MaxEvents
    ELSE TRUE

pageVars == <<win, full, stqryRuntime, inbound, now>>

StorageGet ==
  \E key \in KeyArgsOfPage, callback \in CallbackArgs, customKey \in CustomKeyArgs :
    storage_get(key, callback, customKey) /\ UNCHANGED pageVars

StorageSet ==
  \E changeset \in ChangesetsOfPage, callback \in CallbackArgs, customKey \in CustomKeyArgs :
    CanPost /\ storage_set(changeset, callback, customKey) /\ UNCHANGED pageVars

StorageRemove ==
  \E key \in KeyArgsOfPage, callback \in CallbackArgs, customKey \in CustomKeyArgs :
    CanPost /\ storage_remove(key, callback, customKey) /\ UNCHANGED pageVars

StorageClear ==
  \E callback \in CallbackArgs, customKey \in CustomKeyArgs :
    CanPost /\ storage_clear(callback, customKey) /\ UNCHANGED pageVars

UserGet ==
  \E callback \in CallbackArgs : user_get(callback) /\ UNCHANGED pageVars

Utils == \E fn \in UtilsFns : utils(fn)

\* The keys whose setItem may exceed the quota: the default namespace, whose
\* item grows, and the signalling slot.
QuotaKeys == {STORAGE_KEY, EVENT_KEY}

\* Other scripts of the origin fill or free the storage: the keys for which a
\* setItem exceeds the quota change.
Quota ==
  /\ \E S \in SUBSET QuotaKeys : S # full /\ full' = S
  /\ UNCHANGED <<win, stqryRuntime, bridgeVars, localStorage, sends, inbound, now, tabB, last>>

\* A millisecond passes.
Tick ==
  /\ now < MaxTime
  /\ now' = now + 1
  /\ UNCHANGED <<win, full, stqryRuntime, bridgeVars, localStorage, sends, inbound, tabB, last>>

(***************************************************************************)
(* Initial states and the specifications.                                  *)
(***************************************************************************)
\* Windows of real platforms: every window has a postMessage that can be read.
RealWindows == {w \in Windows : w.parent \in {"self", "frame"}}

\* What earlier page loads, or other scripts of the origin, left in localStorage.
InitStores ==
  {[k \in StoreKeys |-> CASE k = STORAGE_KEY -> d [] k = USER_KEY -> u [] OTHER -> NoItem] :
     d \in {NoItem, ObjText([j \in {"a"} |-> "1"]), NullText, GarbageText},
     u \in {NoItem, ObjText([j \in {"a"} |-> "1"]), GarbageText}}

InitBridge ==
  /\ stqryRuntime = detectRuntime(win)
  /\ appCallbacks = EmptyMap
  /\ lastAppCallbackId = 0
  /\ timers = {}
  /\ sent = <<>>
  /\ sends = 0
  /\ inbound = 0
  /\ hcalls = [i \in CallbackIds |-> 0]
  /\ fcalls = [i \in CallbackIds |-> 0]
  /\ now = 0
  /\ full = {}
  /\ last = InitLast

\* A page with no other context of the origin open.
InitPage ==
  /\ InitBridge
  /\ tabB = NoTab

Init ==
  /\ win \in RealWindows
  /\ localStorage \in InitStores
  /\ InitPage

Next ==
  \/ StorageGet
  \/ StorageSet
  \/ StorageRemove
  \/ StorageClear
  \/ UserGet
  \/ OnMessage
  \/ Timeout
  \/ Tick

Spec == Init /\ [][Next]_vars

\* A page loaded inside a host, one window for each of ReactNative and IFrame:
\* the store is never written, and only the user record is ever read.
InitDelegated ==
  /\ win \in {w \in RealWindows : detectRuntime(w) # "NoRuntime" /\ (w.rn => w.parent = "self")}
  /\ localStorage \in {ls \in InitStores : ls[STORAGE_KEY] = NoItem /\ ls[USER_KEY] = NoItem}
  /\ InitPage

NextDelegated ==
  \/ StorageGet
  \/ StorageSet
  \/ StorageRemove
  \/ StorageClear
  \/ UserGet
  \/ OnMessage
  \/ Timeout

SpecDelegated == InitDelegated /\ [][NextDelegated]_vars

\* A page loaded standalone (NoRuntime): no timer is ever scheduled.
InitStandalone ==
  /\ win \in {w \in RealWindows : detectRuntime(w) = "NoRuntime"}
  /\ localStorage \in {ls \in InitStores : ls[USER_KEY] = NoItem}
  /\ InitPage

NextStandalone ==
  \/ StorageGet
  \/ StorageSet
  \/ StorageRemove
  \/ StorageClear

SpecStandalone == InitStandalone /\ [][NextStandalone]_vars

\* A page loaded in any window, the ones no browser provides included, with an
\* empty store. Nothing is merged into the store, so it stays small.
InitAnyWindow ==
  /\ win \in Windows
  /\ localStorage \in {ls \in InitStores : ls[STORAGE_KEY] = NoItem /\ ls[USER_KEY] = NoItem}
  /\ InitPage

NextAnyWindow ==
  \/ StorageGet
  \/ StorageRemove
  \/ StorageClear
  \/ UserGet
  \/ Utils
  \/ Timeout
  \/ Tick

SpecAnyWindow == InitAnyWindow /\ [][NextAnyWindow]_vars

\* A page that receives message events in each real window, with a
\* mapping in the default namespace; it reads and never writes.
InitInbound ==
  /\ win \in RealWindows
  /\ localStorage \in {ls \in InitStores : ls[STORAGE_KEY].kind = "obj" /\ ls[USER_KEY] = NoItem}
  /\ InitPage

NextInbound ==
  \/ StorageGet
  \/ UserGet
  \/ OnMessage
  \/ Timeout

SpecInbound == InitInbound /\ [][NextInbound]_vars

\* A page in each mode with a user record left in localStorage, none, a
\* JSON object or text that is not JSON; it asks for the user.
InitUser ==
  /\ win \in {w \in RealWindows : w.rn => w.parent = "self"}
  /\ localStorage \in {ls \in InitStores : ls[STORAGE_KEY] = NoItem}
  /\ InitPage

NextUser ==
  \/ UserGet
  \/ OnMessage
  \/ Timeout

SpecUser == InitUser /\ [][NextUser]_vars

\* A standalone page with an empty store and a sibling context of the same
\* origin that listens for the update notification.
InitCrossTab ==
  /\ win \in {w \in RealWindows : detectRuntime(w) = "NoRuntime"}
  /\ localStorage \in {ls \in InitStores : ls[STORAGE_KEY] = NoItem /\ ls[USER_KEY] = NoItem}
  /\ InitBridge
  /\ tabB = OpenTab

NextCrossTab ==
  \/ StorageSet
  \/ StorageRemove
  \/ StorageClear
  \/ Tick
  \/ OnStorage

SpecCrossTab == InitCrossTab /\ [][NextCrossTab]_vars

\* The same page with a storage that runs full: a setItem may exceed the
\* quota and raise. The sibling is sent the events and does not handle them.
NextQuota ==
  \/ StorageSet
  \/ StorageRemove
  \/ StorageClear
  \/ Quota

SpecQuota == InitCrossTab /\ [][NextQuota]_vars

\* Two standalone contexts of the origin that both write: the page, and the
\* sibling with one set of another key into the default namespace.
NextTwoWriters ==
  \/ StorageSet
  \/ SiblingSetRead
  \/ SiblingSetWrite
  \/ OnStorage

SpecTwoWriters == InitCrossTab /\ [][NextTwoWriters]_vars

\* The sibling's event loop delivers every storage event that is queued.
FairCrossTab == SpecCrossTab /\ WF_vars(OnStorage)

(***************************************************************************)
(* Properties.                                                             *)
(***************************************************************************)
\* A step of an operation (not of the clock).
OpStep == last'.turn # last.turn

\* The callbackIds the page has been assigned so far, in order of assignment.
AssignedIds == SelectSeq([k \in 1 .. Len(sent) |-> sent[k].callbackId], LAMBDA i : i # 0)

\* C1: for every callbackId, the stored callback (applied by onMessage) and
\* the fallback (run by the timeout) are together invoked at most once.
C1_ResolvedAtMostOnce ==
  \A i \in CallbackIds : hcalls[i] + fcalls[i] <= 1

\* C2: for a call made with a callback and a fallback, once the fallback has
\* run it has run exactly once, the stored callback is never applied for that
\* id (neither before the timeout, in which case the fallback must not run,
\* nor after it), and the pending entry is gone.
C2_TimeoutOrResponse ==
  \A i \in CallbackIds :
    fcalls[i] >= 1 => /\ fcalls[i] = 1
                      /\ hcalls[i] = 0
                      /\ i \notin DOMAIN appCallbacks

\* C6: onMessage never raises to the dispatcher of the message event, for any
\* inbound message.
C6_ReceiveNeverRaises ==
  last.op = "onMessage" => ~last.raised

\* The facade operations.
FacadeOps == {"storage.get", "storage.set", "storage.remove", "storage.clear", "user.get"}

\* C3: the callbackIds assigned to the calls that register a callback are
\* positive and strictly increasing in order of assignment, so none is
\* assigned twice, also after earlier entries were removed.
C3_IdsStrictlyIncreasing ==
  \A p, q \in 1 .. Len(AssignedIds) :
    /\ AssignedIds[p] >= 1
    /\ p < q => AssignedIds[p] < AssignedIds[q]

\* C3 witness: a second id is assigned after the entry of the first one was
\* removed by its response.
C3_Witness ==
  /\ last.op \in FacadeOps
  /\ last.id = 2
  /\ AssignedIds = <<1, 2>>
  /\ hcalls[1] = 1
  /\ 1 \notin DOMAIN appCallbacks

\* C4: a callback envelope whose callbackId was never assigned, or was already
\* resolved by an earlier response or by the timeout, has no effect: nothing
\* is invoked, nothing is raised, the pending table is unchanged.
C4_UnknownOrConsumedIsNoOp ==
  [][LET m == last'.msg
         i == m.callbackId
     IN (/\ OpStep
         /\ last'.op = "onMessage"
         /\ m.form = "envelope" /\ m.action = "callback" /\ i # 0
         /\ \/ i > lastAppCallbackId
            \/ hcalls[i] + fcalls[i] >= 1)
        => /\ last'.calls = <<>>
           /\ ~last'.raised
           /\ appCallbacks' = appCallbacks
           /\ hcalls' = hcalls /\ fcalls' = fcalls]_vars

\* C5: a callback envelope with callbackId i that arrives while i is pending
\* (args a sequence, or absent) invokes exactly the callback passed by the call
\* that was assigned i, with the args in order, and leaves every other pending
\* entry, every timer and every other id's counters untouched.
C5_ResponseInvokesItsHandler ==
  [][LET m == last'.msg
         i == m.callbackId
         c == last'.calls[1]
     IN (/\ OpStep
         /\ last'.op = "onMessage"
         /\ m.form = "envelope" /\ m.action = "callback" /\ i # 0
         /\ i \in DOMAIN appCallbacks
         /\ m.args.kind # "prim")
        => /\ Len(last'.calls) = 1
           /\ c.fn = "handler" /\ c.id = i
           /\ c.tok \in 1 .. Len(sent) /\ sent[c.tok].callbackId = i
           /\ c.args = (IF m.args.kind = "seq" THEN m.args.seq ELSE <<>>)
           /\ hcalls'[i] = hcalls[i] + 1
           /\ \A j \in DOMAIN appCallbacks \ {i} :
                j \in DOMAIN appCallbacks' /\ appCallbacks'[j] = appCallbacks[j]
           /\ \A j \in CallbackIds \ {i} : hcalls'[j] = hcalls[j]
           /\ timers' = timers /\ fcalls' = fcalls]_vars

\* C5 witness: with two requests in flight the response to the second arrives
\* first; its callback got the two args and the first entry is still pending.
C5_Witness ==
  /\ last.op = "onMessage"
  /\ Len(last.calls) = 1
  /\ last.calls[1].id = 2 /\ last.calls[1].tok = 2
  /\ Len(last.calls[1].args) = 2
  /\ 1 \in DOMAIN appCallbacks /\ hcalls[1] = 0
  /\ 2 \notin DOMAIN appCallbacks

\* The mapping get(null) reads under a storage key.
GetAll(ls, storageKey) == SelectValue(getStoredData(ls, storageKey), NullKey)

\* The value a get yielded: the argument its callback was applied to.
Yielded(l) == l.calls[1].args[1]

\* C7: in Standalone mode a set on a namespace that holds a mapping
\* (or no usable entry, which reads as the empty mapping) leaves get(null)
\* reading the right-biased merge: every key of the changeset holds the
\* changeset's value, every other key keeps its previous value, and no other
\* key appears.
C7_SetMergesRightBiased ==
  [][LET ns == last'.storageKey
         cs == last'.changeset
         before == getStoredData(localStorage, ns)
         after == GetAll(localStorage', ns)
     IN (/\ OpStep
         /\ stqryRuntime = "NoRuntime"
         /\ last'.op = "storage.set"
         /\ before.t = "object")
        => /\ after.t = "object"
           /\ DOMAIN after.m = DOMAIN before.m \cup DOMAIN cs
           /\ \A k \in DOMAIN cs : after.m[k] = cs[k]
           /\ \A k \in DOMAIN before.m \ DOMAIN cs : after.m[k] = before.m[k]]_vars

\* C7 witness: a set of {a: 2} on a namespace that held a and the empty-string
\* key: a was overwritten and the other key kept its value.
C7_Witness ==
  /\ last.op = "storage.set"
  /\ stqryRuntime = "NoRuntime"
  /\ last.changeset = [k \in {"a"} |-> "2"]
  /\ last.read = JsObject([k \in {"a", ""} |-> "1"])
  /\ GetAll(localStorage, last.storageKey) = JsObject([k \in {"a", ""} |-> IF k = "a" THEN "2" ELSE "1"])

\* C8: round trip in Standalone mode: a set of {k: v} that persisted, followed
\* by get(k) on the same namespace, yields v as the callback argument and as
\* the return value, for every string key k, the empty string included.
C8_SetGetRoundTrip ==
  [][LET cs == last.changeset
         k == last'.key.name
     IN (/\ OpStep
         /\ stqryRuntime = "NoRuntime"
         /\ last.op = "storage.set" /\ last.steps # <<>>
         /\ last'.op = "storage.get"
         /\ last'.storageKey = last.storageKey
         /\ ~last'.key.null
         /\ DOMAIN cs = {k}
         /\ last'.callback.present /\ last'.callback.beh = "ok")
        => /\ ~last'.raised
           /\ last'.ret = JsPrim(cs[k])
           /\ Yielded(last') = JsPrim(cs[k])]_vars

\* C9: in Standalone mode a remove on a namespace that holds a mapping deletes
\* exactly that key and no other; with the key absent the mapping is unchanged;
\* the callback, when passed, is invoked and nothing is raised unless the
\* callback itself raises; a second remove of the same key changes nothing.
C9_RemoveExactlyThatKey ==
  [][LET ns == last'.storageKey
         name == PropName(last'.key)
         before == getStoredData(localStorage, ns)
         after == GetAll(localStorage', ns)
     IN (/\ OpStep
         /\ stqryRuntime = "NoRuntime"
         /\ last'.op = "storage.remove"
         /\ before.t = "object")
        => /\ after.t = "object"
           /\ DOMAIN after.m = DOMAIN before.m \ {name}
           /\ \A k \in DOMAIN after.m : after.m[k] = before.m[k]
           /\ name \notin DOMAIN before.m => after = before
           /\ last'.callback.present => Len(last'.calls) = 1
           /\ last'.raised <=> CallbackRaises(last'.callback)
           /\ (/\ last.op = "storage.remove" /\ last.steps # <<>>
               /\ last.storageKey = ns /\ last.key = last'.key) => after = before]_vars

\* C9 witness: a remove of a from a namespace that held a and the empty-string
\* key, of which only the empty-string key is left.
C9_Witness ==
  /\ last.op = "storage.remove"
  /\ stqryRuntime = "NoRuntime"
  /\ last.key = StrKey("a")
  /\ ~last.raised
  /\ last.read = JsObject([k \in {"a", ""} |-> IF k = "a" THEN "1" ELSE "2"])
  /\ GetAll(localStorage, last.storageKey) = JsObject([k \in {""} |-> "2"])

\* C10: in Standalone mode a clear followed immediately by get(null) on the
\* same namespace yields the empty mapping, whatever the namespace held.
C10_ClearThenGetAllIsEmpty ==
  [][(/\ OpStep
      /\ stqryRuntime = "NoRuntime"
      /\ last.op = "storage.clear"
      /\ last'.op = "storage.get"
      /\ last'.key.null
      /\ last'.storageKey = last.storageKey)
     => /\ last'.callback.present => Yielded(last') = JsObject(EmptyMap)
        /\ ~last'.raised => last'.ret = JsObject(EmptyMap)
        /\ last'.raised => CallbackRaises(last'.callback)]_vars

\* C10 witness: get(null) returned the empty mapping right after a clear of
\* the custom namespace.
C10_Witness ==
  /\ last.op = "storage.get"
  /\ stqryRuntime = "NoRuntime"
  /\ last.key.null
  /\ last.prev = "storage.clear"
  /\ last.storageKey = CUSTOM_KEY
  /\ last.ret = JsObject(EmptyMap)
  /\ localStorage[CUSTOM_KEY] = ObjText(EmptyMap)
  /\ localStorage[EVENT_KEY].kind = "event" /\ localStorage[EVENT_KEY].map = EmptyMap

\* C11: in Standalone mode a get, set or remove on a storage key whose entry
\* is missing, unparseable or the text null behaves as on the empty mapping:
\* nothing is raised unless the callback itself raises, get yields what the
\* empty mapping yields, set leaves the changeset, remove leaves the empty
\* mapping.
C11_CorruptEntryReadsAsEmpty ==
  [][LET ns == last'.storageKey
         entry == localStorage[ns]
         after == GetAll(localStorage', ns)
     IN (/\ OpStep
         /\ stqryRuntime = "NoRuntime"
         /\ last'.op \in {"storage.get", "storage.set", "storage.remove"}
         /\ entry.kind \in {"none", "garbage", "null"})
        => /\ last'.raised => CallbackRaises(last'.callback)
           /\ (last'.op = "storage.get" /\ last'.callback.present)
                => /\ Len(last'.calls) = 1
                   /\ Yielded(last') = SelectValue(JsObject(EmptyMap), last'.key)
           /\ last'.op = "storage.set" => after = JsObject(last'.changeset)
           /\ last'.op = "storage.remove" => after = JsObject(EmptyMap)]_vars

\* C12: detectRuntime gives ReactNative whenever the native bridge object is
\* there, whatever the parent; IFrame when it is not there and the window has
\* a distinct parent; NoRuntime when there is neither.
C12_DetectPrecedence ==
  /\ win.rn => stqryRuntime = "ReactNative"
  /\ (~win.rn /\ win.parent # "self") => stqryRuntime = "IFrame"
  /\ (~win.rn /\ win.parent = "self") => stqryRuntime = "NoRuntime"

\* C12, amended: as C12, with IFrame only for a distinct parent whose
\* postMessage is there or raises on access; a distinct parent without a
\* postMessage gives NoRuntime.
C12_DetectPrecedence_Amended ==
  /\ win.rn => stqryRuntime = "ReactNative"
  /\ (~win.rn /\ win.parent \in {"frame", "isolated"}) => stqryRuntime = "IFrame"
  /\ (~win.rn /\ win.parent \in {"self", "mute"}) => stqryRuntime = "NoRuntime"

\* C12 witness: a page with the native bridge object inside a frame was
\* detected as ReactNative and has sent a request on the native channel.
C12_Witness ==
  /\ win.rn /\ win.parent = "frame"
  /\ stqryRuntime = "ReactNative"
  /\ Len(sent) = 1 /\ sent[1].channel = "native"

\* C13: the mode is computed once at load and no operation changes it: in
\* every reachable state window.stqryRuntime is what detectRuntime gave for
\* the window the page was loaded in.
C13_ModeNeverChanges ==
  stqryRuntime = detectRuntime(win)

\* C13 witness: in a frame, after a user.get whose timeout ran the fallback
\* and a later request, utils.isStandalone was asked and the mode is IFrame.
C13_Witness ==
  /\ stqryRuntime = "IFrame"
  /\ fcalls[1] = 1
  /\ Len(sent) = 2
  /\ last.op = "utils.isStandalone"
  /\ last.ret = JsBool(FALSE)

\* A Standalone write (set, remove or clear) that got past the read of the
\* stored data, to its setItem calls.
Wrote(l) ==
  /\ l.op \in {"storage.set", "storage.remove", "storage.clear"}
  /\ l.steps # <<>>

\* The sibling context has received a notification written at time t whose
\* snapshot holds value v under key k.
Received(t, k, v) ==
  \E i \in 1 .. Len(tabB.received) :
    LET n == tabB.received[i]
    IN n.ts = t /\ n.detail.t = "object" /\ k \in DOMAIN n.detail.m /\ n.detail.m[k] = v

\* C14: when a Standalone context has done set({a: 1}), a sibling context of
\* the origin that listens eventually has received a stqryStorageUpdated
\* notification, written at the time of that set, whose snapshot holds a = 1.
C14_SiblingEventuallyNotified ==
  \A t \in 0 .. MaxTime :
    (/\ stqryRuntime = "NoRuntime" /\ tabB.open
     /\ Wrote(last) /\ last.op = "storage.set"
     /\ last.changeset = [k \in {"a"} |-> "1"]
     /\ localStorage[EVENT_KEY].ts = t)
    ~> Received(t, "a", "1")

\* C14 witness: the sibling has handled every event of a set({a: 1}) done at
\* time 1 into the custom namespace and holds the notification with a = 1.
C14_Witness ==
  /\ tabB.open /\ tabB.queue = <<>>
  /\ last.op = "storage.set" /\ last.storageKey = CUSTOM_KEY
  /\ last.changeset = [k \in {"a"} |-> "1"]
  /\ localStorage[EVENT_KEY].ts = 1
  /\ Received(1, "a", "1")

\* C15: every Standalone write changes the signalling slot and so sends the
\* sibling context a storage event for it, also when the snapshot is the one
\* already in the slot (a clear after a clear).
C15_EveryWriteSignals ==
  [][(/\ OpStep
      /\ stqryRuntime = "NoRuntime" /\ tabB.open
      /\ Wrote(last'))
     => /\ localStorage'[EVENT_KEY] # localStorage[EVENT_KEY]
        /\ Len(tabB'.queue) > Len(tabB.queue)
        /\ tabB'.queue[Len(tabB'.queue)].key = EVENT_KEY]_vars

\* C16: in ReactNative and IFrame mode a storage set, remove or clear sends
\* exactly one envelope, with the operation's action and arguments, on the
\* channel of the mode, and leaves every localStorage item, the signalling
\* slot included, and the sibling's event queue unchanged.
C16_DelegatedWriteOnlySends ==
  [][(/\ OpStep
      /\ stqryRuntime # "NoRuntime"
      /\ last'.op \in {"storage.set", "storage.remove", "storage.clear"})
     => /\ Len(sent') = Len(sent) + 1
        /\ SubSeq(sent', 1, Len(sent)) = sent
        /\ sent'[Len(sent')].channel = (IF stqryRuntime = "ReactNative" THEN "native" ELSE "parent")
        /\ last'.envelope.action = last'.op
        /\ last'.envelope.data = Payload(last'.key, last'.storageKey, last'.changeset)
        /\ localStorage' = localStorage
        /\ tabB' = tabB]_vars

\* C16 witness: in a frame a set of {a: 1} was sent as the second envelope
\* and the store still holds nothing.
C16_Witness ==
  /\ stqryRuntime = "IFrame"
  /\ last.op = "storage.set"
  /\ last.envelope.data.changeset = [k \in {"a"} |-> "1"]
  /\ Len(sent) = 2 /\ sent[2].channel = "parent"
  /\ \A k \in StoreKeys : localStorage[k] = NoItem

\* C18: a facade call that goes through callApp never raises to its caller,
\* in any delegated mode and whatever the state of the peer channel.
C18_SendNeverRaises ==
  (last.op \in FacadeOps /\ stqryRuntime # "NoRuntime") => ~last.raised

\* C17: in NoRuntime mode no facade call reaches callApp: the pending table
\* is empty, the callbackId counter is 0, no timer is scheduled and nothing
\* has been dispatched, in every reachable state.
C17_StandaloneNeverSends ==
  stqryRuntime = "NoRuntime"
    => /\ appCallbacks = EmptyMap
       /\ lastAppCallbackId = 0
       /\ timers = {}
       /\ sent = <<>>
       /\ sends = 0

\* C17 witness: a standalone page has written the store (the signalling slot
\* is set) and then answered user.get with a callback from the local record.
C17_Witness ==
  /\ stqryRuntime = "NoRuntime"
  /\ localStorage[EVENT_KEY].kind = "event"
  /\ last.op = "user.get"
  /\ Len(last.calls) = 1 /\ last.calls[1].args = <<DemoUser>>
  /\ lastAppCallbackId = 0 /\ sent = <<>>

\* callbackId i is pending and no timer is scheduled for it: its request was
\* sent with a callback and without a fallback.
PendingWithoutFallback(i) ==
  /\ i \in DOMAIN appCallbacks
  /\ \A t \in timers : t.callbackId # i

\* C19: a request sent with a callback and no fallback stays pending, with its
\* callback not invoked, through every step that is not the delivery of a
\* callback envelope for its id; and sending it raised nothing.
C19_UnansweredStaysPending ==
  [][/\ \A i \in CallbackIds :
          (/\ PendingWithoutFallback(i)
           /\ ~(/\ last'.op = "onMessage" /\ OpStep
                 /\ last'.msg.action = "callback" /\ last'.msg.callbackId = i))
          => /\ i \in DOMAIN appCallbacks'
             /\ appCallbacks'[i] = appCallbacks[i]
             /\ hcalls'[i] = hcalls[i]
             /\ fcalls'[i] = fcalls[i]
     /\ (/\ OpStep
         /\ last'.op \in {"storage.get", "storage.set", "storage.remove", "storage.clear"}
         /\ stqryRuntime # "NoRuntime")
        => ~last'.raised]_vars

\* C19 witness: the storage request with id 1 is still pending and was never
\* invoked, after the timer of a later user.get ran its fallback and an
\* envelope for another id was delivered.
C19_Witness ==
  /\ PendingWithoutFallback(1)
  /\ hcalls[1] = 0 /\ fcalls[1] = 0
  /\ fcalls[2] = 1
  /\ last.op = "onMessage" /\ last.msg.action = "callback" /\ last.msg.callbackId = 2

\* C20: in NoRuntime mode a set, remove or clear addressed to one storage key
\* leaves what get(null) reads under every other storage key a caller can
\* pass unchanged.
C20_NamespacesIndependent ==
  [][(/\ OpStep
      /\ stqryRuntime = "NoRuntime"
      /\ Wrote(last'))
     => \A k \in StoreKeys \ {last'.storageKey} :
          GetAll(localStorage', k) = GetAll(localStorage, k)]_vars

\* C21: in NoRuntime mode a get on a storage key that holds a mapping yields
\* the whole mapping exactly when the key argument is null, and for every
\* string key, the empty string included, yields the single value stored
\* under it, undefined when there is none.
C21_NullIsTheOnlySentinel ==
  [][LET before == getStoredData(localStorage, last'.storageKey)
     IN (/\ OpStep
         /\ stqryRuntime = "NoRuntime"
         /\ last'.op = "storage.get"
         /\ before.t = "object"
         /\ ~CallbackRaises(last'.callback))
        => /\ ~last'.raised
           /\ last'.key.null => last'.ret = before
           /\ ~last'.key.null => last'.ret = Prop(before.m, last'.key)]_vars

\* C22: an envelope delivered to onMessage twice in a row (once for each
\* registered listener) acts once: the second delivery of a callback envelope
\* invokes nothing and changes nothing, and the second delivery of a
\* storage.updated envelope dispatches the same snapshot again and changes
\* nothing of the bridge.
C22_DuplicateDeliveryIdempotent ==
  [][(/\ OpStep
      /\ last.op = "onMessage" /\ last'.op = "onMessage"
      /\ last'.msg = last.msg
      /\ last.msg.form = "envelope")
     => /\ last.msg.action = "callback"
             => /\ last'.calls = <<>>
                /\ appCallbacks' = appCallbacks
                /\ hcalls' = hcalls
        /\ last.msg.action = "storage.updated"
             => /\ last'.detail = last.detail
                /\ appCallbacks' = appCallbacks
                /\ hcalls' = hcalls
        /\ lastAppCallbackId' = lastAppCallbackId
        /\ timers' = timers /\ sent' = sent /\ fcalls' = fcalls
        /\ localStorage' = localStorage]_vars

\* C23: a facade call in a delegated mode adds at most one pending entry and
\* at most one timer, the entry when a callback is passed and the timer when
\* there is a fallback besides, and leaves every entry that was pending and
\* every timer that was scheduled as it was; and in any step an entry leaves
\* the table only by a callback envelope for its own id or by its own timer.
C23_SendKeepsEarlierPending ==
  [][/\ (OpStep /\ last'.op \in FacadeOps /\ stqryRuntime # "NoRuntime")
          => /\ \A i \in DOMAIN appCallbacks :
                  i \in DOMAIN appCallbacks' /\ appCallbacks'[i] = appCallbacks[i]
             /\ DOMAIN appCallbacks' \ DOMAIN appCallbacks
                  = (IF last'.callback.present THEN {last'.id} ELSE {})
             /\ timers \subseteq timers'
             /\ Cardinality(timers' \ timers)
                  = (IF last'.callback.present /\ last'.op = "user.get" THEN 1 ELSE 0)
             /\ \A t \in timers' \ timers : t.callbackId = last'.id
             /\ hcalls' = hcalls /\ fcalls' = fcalls
     /\ \A i \in DOMAIN appCallbacks \ DOMAIN appCallbacks' :
          /\ OpStep
          /\ \/ /\ last'.op = "onMessage"
                /\ last'.msg.action = "callback" /\ last'.msg.callbackId = i
             \/ /\ last'.op = "timeout" /\ last'.id = i]_vars

\* C23 witness: a user.get was assigned id 2 while the user.get with id 1 was
\* still pending; both entries and both timers are there.
C23_Witness ==
  /\ last.op = "user.get" /\ last.id = 2
  /\ DOMAIN appCallbacks = {1, 2}
  /\ appCallbacks[1].tok = 1 /\ appCallbacks[2].tok = 2
  /\ {t.callbackId : t \in timers} = {1, 2}
  /\ hcalls[1] = 0 /\ fcalls[1] = 0

\* C24: a Standalone set, remove or clear dispatches no stqryStorageUpdated
\* notification at the window that made it: the write only queues storage
\* events for the sibling context, which has received nothing more when the
\* write returns.
C24_WriterNotNotified ==
  [][(/\ OpStep
      /\ stqryRuntime = "NoRuntime"
      /\ last'.op \in {"storage.set", "storage.remove", "storage.clear"})
     => /\ last'.detail = NoData
        /\ tabB'.received = tabB.received
        /\ tabB'.seen = tabB.seen]_vars

\* C24 witness: the sibling has received the snapshot of a set({a: 2}) while
\* nothing was dispatched at the window that made the set.
C24_Witness ==
  /\ stqryRuntime = "NoRuntime" /\ tabB.open
  /\ Wrote(last) /\ last.op = "storage.set"
  /\ last.changeset = [k \in {"a"} |-> "2"]
  /\ last.detail = NoData
  /\ Received(now, "a", "2")

\* C25: in a delegated mode the callback of a user.get is invoked once: by
\* the response, with the peer's args, when that is delivered while the timer
\* is still scheduled, and then the timer invokes nothing; or else by the
\* timer's fallback, with the local user, and then a response invokes nothing.
C25_InfoGetterCallsBackOnce ==
  [][/\ (/\ OpStep /\ last'.op = "timeout")
          => IF hcalls[last'.id] >= 1
               THEN last'.calls = <<>>
               ELSE /\ Len(last'.calls) = 2
                    /\ last'.calls[2].fn = "callback"
                    /\ last'.calls[2].args = <<getLocalUser(localStorage)>>
     /\ (/\ OpStep /\ last'.op = "onMessage"
         /\ last'.msg.form = "envelope" /\ last'.msg.action = "callback"
         /\ fcalls[last'.msg.callbackId] >= 1)
          => last'.calls = <<>>]_vars

\* C26: a Standalone set, remove or clear that gets past the read of the
\* stored data persists, then broadcasts the snapshot it persisted, then
\* invokes the callback, all before it returns: when the callback raises the
\* new mapping is already persisted and in the signalling slot; a call that
\* raised on the read has done none of the three.
C26_PersistBroadcastCallback ==
  [][LET ns == last'.storageKey
         cbk == last'.callback
     IN (/\ OpStep
         /\ stqryRuntime = "NoRuntime"
         /\ last'.op \in {"storage.set", "storage.remove", "storage.clear"})
        => IF last'.steps = <<>>
             THEN /\ last'.raised /\ last'.calls = <<>>
                  /\ localStorage' = localStorage
             ELSE /\ last'.steps = <<"persist", "broadcast">> \o CallbackStep(cbk)
                  /\ localStorage'[ns].kind = "obj"
                  /\ localStorage'[EVENT_KEY].kind = "event"
                  /\ localStorage'[EVENT_KEY].map = localStorage'[ns].map
                  /\ localStorage'[EVENT_KEY].ts = now
                  /\ last'.calls = CallbackCall(cbk, <<>>)
                  /\ last'.raised <=> CallbackRaises(cbk)]_vars

\* C26 witness: a set of the empty-string key whose callback raised: the
\* merged mapping is persisted and is the snapshot in the signalling slot.
C26_Witness ==
  /\ stqryRuntime = "NoRuntime"
  /\ last.op = "storage.set" /\ last.raised
  /\ last.steps = <<"persist", "broadcast", "callback">>
  /\ last.read = JsObject([k \in {"a"} |-> "1"])
  /\ last.changeset = [k \in {""} |-> "2"]
  /\ localStorage[last.storageKey] = ObjText([k \in {"a", ""} |-> IF k = "a" THEN "1" ELSE "2"])
  /\ localStorage[EVENT_KEY].map = localStorage[last.storageKey].map

\* C27: in NoRuntime mode a get that returns has, when a callback was passed,
\* invoked it exactly once inside the call, with the one argument that is the
\* value the get returns, selected from the stored data; a get that raises
\* either invoked nothing, or invoked the callback, which raised, with the
\* selected value.
C27_GetCallsBackWithReturnValue ==
  [][LET cbk == last'.callback
         before == getStoredData(localStorage, last'.storageKey)
         invokedWithValue ==
           /\ Len(last'.calls) = 1
           /\ last'.calls[1].fn = "callback" /\ last'.calls[1].tok = cbk.tok
           /\ Len(last'.calls[1].args) = 1
           /\ Yielded(last') = SelectValue(before, last'.key)
           /\ last'.steps = <<"callback">>
     IN (/\ OpStep
         /\ stqryRuntime = "NoRuntime"
         /\ last'.op = "storage.get"
         /\ cbk.present)
        => /\ localStorage' = localStorage
           /\ IF last'.raised
                THEN last'.calls = <<>> \/ (CallbackRaises(cbk) /\ invokedWithValue)
                ELSE invokedWithValue /\ last'.ret = Yielded(last')]_vars

\* C27 witness: get('a', cb) on the custom namespace returned the stored 2 and
\* had passed 2 to cb.
C27_Witness ==
  /\ stqryRuntime = "NoRuntime"
  /\ last.op = "storage.get" /\ last.storageKey = CUSTOM_KEY
  /\ last.key = StrKey("a")
  /\ last.callback.present /\ ~last.raised
  /\ Len(last.calls) = 1
  /\ last.calls[1].args = <<JsPrim("2")>>
  /\ last.ret = JsPrim("2")

\* C28: in every mode, an inbound storage.updated envelope that carries data
\* dispatches exactly that data as the one stqryStorageUpdated notification
\* of the delivery, invokes no callback, and leaves the pending table, the
\* callbackId counter, the timers and localStorage unchanged; without data
\* nothing is dispatched.
C28_UpdateIsForwardedOnly ==
  [][(/\ OpStep
      /\ last'.op = "onMessage"
      /\ last'.msg.form = "envelope" /\ last'.msg.action = "storage.updated")
     => /\ last'.detail = last'.msg.data
        /\ last'.calls = <<>> /\ ~last'.raised
        /\ appCallbacks' = appCallbacks
        /\ lastAppCallbackId' = lastAppCallbackId
        /\ timers' = timers
        /\ hcalls' = hcalls /\ fcalls' = fcalls
        /\ localStorage' = localStorage]_vars

\* C28 witness: in a frame the snapshot {a: 1} of a storage.updated envelope,
\* which also carried the callbackId 1, was dispatched while the request with
\* id 1 was pending; the request is still pending and was not invoked.
C28_Witness ==
  /\ stqryRuntime = "IFrame"
  /\ last.op = "onMessage" /\ last.msg.action = "storage.updated"
  /\ last.msg.callbackId = 1
  /\ last.detail = SomeData([k \in {"a"} |-> "1"])
  /\ DOMAIN appCallbacks = {1} /\ hcalls[1] = 0
  /\ localStorage[STORAGE_KEY].kind = "obj"

\* C29: an inbound envelope whose action is neither callback nor
\* storage.updated, also one that carries the callbackId of a pending request,
\* args and data, is ignored: nothing is invoked, nothing is dispatched,
\* nothing is raised, and the pending table, the callbackId counter, the
\* timers and localStorage are unchanged.
C29_OtherActionIgnored ==
  [][(/\ OpStep
      /\ last'.op = "onMessage"
      /\ last'.msg.form = "envelope"
      /\ last'.msg.action \notin {"callback", "storage.updated"})
     => /\ last'.calls = <<>> /\ ~last'.raised
        /\ last'.detail = NoData
        /\ appCallbacks' = appCallbacks
        /\ lastAppCallbackId' = lastAppCallbackId
        /\ timers' = timers
        /\ hcalls' = hcalls /\ fcalls' = fcalls
        /\ localStorage' = localStorage]_vars

\* C29 witness: an envelope with another action, the callbackId 1 and data
\* was delivered while the request with id 1 was pending with its timer; the
\* request is still pending and was not invoked.
C29_Witness ==
  /\ last.op = "onMessage" /\ last.msg.action = "other.action"
  /\ last.msg.callbackId = 1 /\ last.msg.data.present
  /\ 1 \in DOMAIN appCallbacks
  /\ \E t \in timers : t.callbackId = 1
  /\ hcalls[1] = 0 /\ fcalls[1] = 0

\* C30: a window without the native bridge object whose distinct parent
\* raises on the access to its postMessage is detected as IFrame, never as
\* NoRuntime, and the page then takes the delegated branch of the facade.
C30_AccessExceptionMeansIFrame ==
  (~win.rn /\ win.parent = "isolated")
    => /\ stqryRuntime = "IFrame"
       /\ last.op \in FacadeOps => last.envelope.channel = "parent"

\* C30 witness: in such a window utils.isIFrame answered true after a
\* storage.get had registered its callback for the parent.
C30_Witness ==
  /\ ~win.rn /\ win.parent = "isolated"
  /\ stqryRuntime = "IFrame"
  /\ lastAppCallbackId = 1 /\ 1 \in DOMAIN appCallbacks
  /\ last.op = "utils.isIFrame" /\ last.ret = JsBool(TRUE)

\* C31: every facade call that reaches callApp dispatches exactly one
\* envelope, on the channel of the cached mode: the native bridge object in
\* ReactNative mode, also when the window has a parent, and the parent in
\* IFrame mode; the envelope carries the action, the version and the id
\* assigned to the call, and the earlier dispatches are unchanged.
C31_OneEnvelopeOnModeChannel ==
  [][(/\ OpStep
      /\ last'.op \in FacadeOps
      /\ stqryRuntime # "NoRuntime")
     => LET channel == IF stqryRuntime = "ReactNative" THEN "native" ELSE "parent"
        IN /\ Len(sent') = Len(sent) + 1
           /\ SubSeq(sent', 1, Len(sent)) = sent
           /\ sent'[Len(sent')] = [channel |-> channel, callbackId |-> last'.id]
           /\ last'.envelope.channel = channel
           /\ last'.envelope.action = last'.op
           /\ last'.envelope.version = VERSION
           /\ last'.envelope.callbackId = last'.id
           /\ ~last'.raised]_vars

\* C31 witness: a page with the native bridge object inside a frame has
\* dispatched two envelopes, both on the native channel.
C31_Witness ==
  /\ win.rn /\ win.parent = "frame"
  /\ last.op = "user.get" /\ last.envelope.channel = "native"
  /\ Len(sent) = 2
  /\ sent[1].channel = "native" /\ sent[2].channel = "native"

\* C32: user.get and the fallback its timer runs raise nothing of their own,
\* whatever the stqryUser item holds: when one of them raised, the caller's
\* callback had been invoked, and it was the callback that raised.
C32_UserGetNeverRaises ==
  (last.op \in {"user.get", "timeout"} /\ last.raised)
    => \E i \in 1 .. Len(last.calls) : last.calls[i].fn = "callback"

\* C33: when onMessage has handled a callback envelope for a pending
\* callbackId, that id is no longer pending, also when the handler raised;
\* and an id that was handled is never acted on again, neither by another
\* response nor by its timer.
C33_HandledIdLeavesTable ==
  [][/\ (/\ OpStep
         /\ last'.op = "onMessage"
         /\ IsCallback(last'.msg)
         /\ last'.msg.callbackId \in DOMAIN appCallbacks)
          => last'.msg.callbackId \notin DOMAIN appCallbacks'
     /\ \A i \in CallbackIds :
          hcalls[i] >= 1 => hcalls'[i] = hcalls[i] /\ fcalls'[i] = fcalls[i]]_vars

\* C37: in every reachable state each key of the pending table is an integer
\* from 1 to the callbackId counter, the counter is the number of calls sent
\* with a callback, and the table has no more entries than that number.
C37_TableKeysWithinCounter ==
  /\ \A i \in DOMAIN appCallbacks : i \in 1 .. lastAppCallbackId
  /\ lastAppCallbackId = Len(AssignedIds)
  /\ Cardinality(DOMAIN appCallbacks) <= Len(AssignedIds)
  /\ \A t \in timers : t.callbackId \in 1 .. lastAppCallbackId

\* C37 witness: two calls were sent with a callback; the first id was
\* answered and only the second is pending.
C37_Witness ==
  /\ lastAppCallbackId = 2
  /\ Len(sent) = 2
  /\ DOMAIN appCallbacks = {2}
  /\ hcalls[1] = 1

\* C36: whenever every storage event the writer's operations caused has been
\* delivered to the sibling, in order, the snapshot of the last notification
\* the sibling received is the mapping persisted under the storage key of the
\* writer's last write; and the events are always eventually all delivered.
C36_SiblingConverges ==
  /\ [](( /\ stqryRuntime = "NoRuntime" /\ tabB.open
          /\ tabB.queue = <<>>
          /\ Wrote(last))
        => /\ tabB.received # <<>>
           /\ tabB.received[Len(tabB.received)].detail = GetAll(localStorage, last.storageKey))
  /\ []<>(tabB.queue = <<>>)

\* C36 witness: after a set of {a: 2} in one namespace and a remove in the
\* other, all delivered, the sibling's last notification is the empty mapping
\* the remove persisted, and the one before it was {a: 2}.
C36_Witness ==
  /\ tabB.open /\ tabB.queue = <<>>
  /\ last.op = "storage.remove" /\ Wrote(last)
  /\ Len(tabB.received) = 2
  /\ tabB.received[1].detail = JsObject([k \in {"a"} |-> "2"])
  /\ tabB.received[2].detail = JsObject(EmptyMap)
  /\ GetAll(localStorage, last.storageKey) = JsObject(EmptyMap)

\* C34: after every Standalone set, remove or clear that wrote the signalling
\* slot, the snapshot in the slot is the mapping persisted under the
\* operation's storage key, also when the setItem of the persist exceeded the
\* quota and its exception was swallowed.
C34_SnapshotIsWhatIsPersisted ==
  [][(/\ OpStep
      /\ stqryRuntime = "NoRuntime"
      /\ Wrote(last')
      /\ "broadcast" \in {last'.steps[i] : i \in 1 .. Len(last'.steps)})
     => /\ localStorage'[EVENT_KEY].kind = "event"
        /\ JsObject(localStorage'[EVENT_KEY].map) = GetAll(localStorage', last'.storageKey)]_vars

\* C35: when the page has set key a and the sibling context has set key b,
\* both in the default namespace, the persisted mapping holds both keys,
\* wherever the page's set fell among the read and the write of the
\* sibling's set.
C35_NoLostUpdate ==
  (/\ stqryRuntime = "NoRuntime"
   /\ tabB.pc = "done"
   /\ last.op = "storage.set" /\ Wrote(last)
   /\ last.storageKey = STORAGE_KEY
   /\ DOMAIN last.changeset = {"a"})
    => {"a", "b"} \subseteq DOMAIN GetAll(localStorage, STORAGE_KEY).m

====
